---- MODULE Spec2Model ----
(***************************************************************************)
(* Model of the menu-translation backend: the memoized currency rate       *)
(* client (src/src/services/forex_service.py) and the Flask routes that    *)
(* orchestrate it, the upload validator, the translator and the image      *)
(* search (src/src/app.py).                                                *)
(***************************************************************************)
EXTENDS Integers, Sequences, FiniteSets, TLC

VARIABLES
    rateCache,        \* joblib store of get_exchange_rate: (from, to) -> entry
    upstreamCalls,    \* HTTP GETs issued to the rate provider, per (from, to)
    upstreamReturned, \* valid rates the provider has answered, per (from, to)
    failed,           \* (from, to) pairs for which a call has raised ValueError
    last,             \* the latest completed sequential call
    pc, args, val,    \* concurrent callers: position, arguments, value in hand
    response,         \* the latest HTTP response of the API layer
    req,              \* the request that produced it, and what serving it did
    files,            \* transient upload files present on disk
    uploads,          \* transient upload files written so far
    searchCache,      \* memo of the image search: (query, language) -> URLs
    codesCache        \* joblib store of get_supported_currency_codes

forexVars == <<rateCache, upstreamCalls, upstreamReturned, failed, last, pc, args, val>>

httpVars == <<response, req, files, uploads, searchCache, codesCache>>

vars == <<rateCache, upstreamCalls, upstreamReturned, failed, last, pc, args, val,
          response, req, files, uploads, searchCache, codesCache>>

----
\* Bounds of the model.
MaxCalls == 3
NumCallers == 2
MaxUploads == 2
MaxDishes == 2
MaxBatch == 2

Currencies == {"EUR", "USD"}
Pairs == Currencies \X Currencies
Callers == 1..NumCallers

----
\* Values.
NoEntry == [kind |-> "none", v |-> 0, msg |-> ""]
Rate(r) == [kind |-> "rate", v |-> r, msg |-> ""]
ValueError(m) == [kind |-> "error", v |-> 0, msg |-> m]

Absent == [t |-> "absent", v |-> 0]
\* What the provider may put under rates[to]: JSON numbers, a numeric string,
\* a non-numeric string, null.
RawValues ==
    {[t |-> "num", v |-> n] : n \in {-1, 0, 1, 2}}
        \cup {[t |-> "numstr", v |-> 2], [t |-> "badstr", v |-> 0], [t |-> "null", v |-> 0]}

\* An upstream answer to GET /latest/{from}, as far as rates[to] is concerned.
Responses ==
    {[kind |-> k, entry |-> Absent] : k \in {"http_error", "bad_json", "no_rates", "rates"}}
        \cup {[kind |-> "rates", entry |-> x] : x \in RawValues}

\* float(x): numbers and numeric strings convert, None raises TypeError and a
\* non-numeric string raises ValueError.
ToFloat(raw) ==
    CASE raw.t = "num" -> [ok |-> TRUE, v |-> raw.v]
      [] raw.t = "numstr" -> [ok |-> TRUE, v |-> raw.v]
      [] OTHER -> [ok |-> FALSE, v |-> 0]

get_exchange_rate_lax(from_currency, to_currency, resp) ==
    IF from_currency = to_currency THEN Rate(1)
    ELSE IF resp.kind \in {"http_error", "bad_json"}
        THEN ValueError("Failed to fetch exchange rate")
    ELSE IF resp.kind = "no_rates" \/ resp.entry = Absent
        THEN ValueError("Invalid exchange rate response")
    ELSE LET f == ToFloat(resp.entry) IN
        IF ~f.ok THEN ValueError("Invalid exchange rate response")
        ELSE IF f.v < 0 THEN ValueError("Invalid exchange rate response")
        ELSE Rate(f.v)

\* The body of get_exchange_rate, given the provider's answer.
get_exchange_rate(from_currency, to_currency, resp) ==
    IF from_currency = to_currency THEN Rate(1)
    ELSE IF resp.kind \in {"http_error", "bad_json"}
        \* requests.RequestException (raise_for_status, timeout, undecodable body)
        THEN ValueError("Failed to fetch exchange rate")
    ELSE IF resp.kind = "no_rates" \/ resp.entry = Absent
        THEN ValueError("Invalid exchange rate response")
    ELSE LET f == ToFloat(resp.entry) IN
        IF ~f.ok THEN ValueError("Invalid exchange rate response")
        ELSE IF f.v <= 0 THEN ValueError("Invalid exchange rate response")
        ELSE Rate(f.v)

\* A response the claim calls non-2xx or malformed.
Malformed(resp) ==
    \/ resp.kind # "rates"
    \/ resp.entry = Absent
    \/ ~ToFloat(resp.entry).ok
    \/ ToFloat(resp.entry).v <= 0

\* Whether the call goes to the network: only when the currencies differ.
IssuesRequest(pair) == pair[1] # pair[2]

----
\* joblib.Memory: a returned value is stored under the call's arguments, a
\* raised exception stores nothing.
StoreNegative(cache, pair, res) == [cache EXCEPT ![pair] = res]

MemoryStore(cache, pair, res) ==
    IF res.kind = "rate" THEN [cache EXCEPT ![pair] = res] ELSE cache

NeverHit(cache, pair) == FALSE

\* A caller that takes an entry not yet written for a stored one.
AlwaysHit(cache, pair) == TRUE

MemoryHit(cache, pair) == cache[pair] # NoEntry

\* Ghost bookkeeping of one upstream exchange.
CountUpstream(calls, pair) ==
    IF IssuesRequest(pair) THEN [calls EXCEPT ![pair] = @ + 1] ELSE calls

NoteReturned(ret, pair, resp) ==
    IF IssuesRequest(pair) /\ ~Malformed(resp)
    THEN [ret EXCEPT ![pair] = @ \cup {ToFloat(resp.entry).v}] ELSE ret

----
\* The HTTP API layer's values.
None == [some |-> FALSE, v |-> <<>>]
Some(x) == [some |-> TRUE, v |-> x]

NoResponse ==
    [endpoint |-> "none", code |-> 0, json |-> FALSE, keys |-> {}, status |-> "",
     message |-> <<>>, payload |-> <<>>]

\* jsonify({"status": "error", "message": message}), code
JsonError(endpoint, code, message) ==
    [endpoint |-> endpoint, code |-> code, json |-> TRUE, keys |-> {"status", "message"},
     status |-> "error", message |-> message, payload |-> <<>>]

\* jsonify({"status": "success", key: payload})
JsonSuccess(endpoint, key, payload) ==
    [endpoint |-> endpoint, code |-> 200, json |-> TRUE, keys |-> {"status", key},
     status |-> "success", message |-> <<>>, payload |-> payload]

\* What Flask answers when a view raises: an HTML error page, no JSON body.
HtmlError(endpoint, code) ==
    [endpoint |-> endpoint, code |-> code, json |-> FALSE, keys |-> {}, status |-> "",
     message |-> <<>>, payload |-> <<>>]

DishNames == {"Paella", "Pho Bo"}

----
\* POST /api/translate

\* The upload validator: rejects empty content, an empty filename, a disallowed
\* extension and oversized content; else writes the n-th transient file.
Contents == {"empty", "jpeg", "oversized"}
Filenames == {"", "menu.jpg", "menu.exe"}

save_uploaded_image(file_content, filename, n) ==
    IF file_content = "empty" THEN [ok |-> FALSE, path |-> 0, msg |-> "Empty file"]
    ELSE IF filename = "" THEN [ok |-> FALSE, path |-> 0, msg |-> "No filename"]
    ELSE IF filename = "menu.exe" THEN [ok |-> FALSE, path |-> 0, msg |-> "Invalid file type"]
    ELSE IF file_content = "oversized" THEN [ok |-> FALSE, path |-> 0, msg |-> "File too large"]
    ELSE [ok |-> TRUE, path |-> n, msg |-> ""]

\* What the translator may put on a dish, and the dishes it may return.
ImageUrlValues == {None, Some(<<>>), Some(<<<<"https://img/1">>>>)}
Dishes == [name : DishNames, image_urls : ImageUrlValues]

RECURSIVE SeqsUpTo(_, _)
SeqsUpTo(S, n) ==
    IF n = 0 THEN {<<>>}
    ELSE LET shorter == SeqsUpTo(S, n - 1) IN
         shorter \cup {Append(q, x) : q \in shorter, x \in S}

Translation(dishes) ==
    [dishes |-> dishes, source_language |-> "Spanish", country |-> "Spain",
     original_currency |-> "EUR", exchange_rate_to_eur |-> 1, target_currency |-> "EUR"]

\* The outcomes of translate_menu_image.
ErrorTexts == {"Invalid response", "boom"}
TranslatorOutcomes ==
    {[kind |-> "ok", dishes |-> d, text |-> ""] : d \in SeqsUpTo(Dishes, MaxDishes)}
        \cup {[kind |-> k, dishes |-> <<>>, text |-> t] :
                k \in {"TranslationError", "Exception"}, t \in ErrorTexts}

\* Placeholders of a request that never reached the validator or the translator.
NotSaved == [ok |-> FALSE, path |-> 0, msg |-> ""]
NoOutcome == [kind |-> "none", dishes |-> <<>>, text |-> ""]

KeepImageUrls(dishes) == dishes

\* for dish in translation.dishes: dish.image_urls = None; append(dish.model_dump())
StripImageUrls(dishes) ==
    [i \in 1..Len(dishes) |-> [dishes[i] EXCEPT !.image_urls = None]]

TranslationData(t) ==
    [source_language |-> t.source_language,
     dishes |-> StripImageUrls(t.dishes),
     original_currency |-> t.original_currency,
     exchange_rate_to_eur |-> t.exchange_rate_to_eur,
     target_currency |-> t.target_currency]

LeakyMessage(text) == <<"An unexpected error occurred during translation: ", text>>

\* except Exception: the fixed message
UnexpectedMessage(text) == <<"An unexpected error occurred during translation">>

\* The try block's response for each outcome of the translator.
TranslateResponse(out) ==
    CASE out.kind = "ok" -> JsonSuccess("translate", "data", TranslationData(Translation(out.dishes)))
      [] out.kind = "TranslationError" ->
            JsonError("translate", 500, <<"Translation failed: ", out.text>>)
      [] OTHER -> JsonError("translate", 500, UnexpectedMessage(out.text))

UnlinkOnSuccessOnly(onDisk, image_path, out) ==
    IF out.kind = "ok" THEN onDisk \ {image_path} ELSE onDisk

\* finally: if image_path: image_path.unlink(missing_ok=True)
FinallyUnlink(onDisk, image_path, out) == onDisk \ {image_path}

translate_menu(hasImage, file_content, filename, out) ==
    /\ uploads < MaxUploads
    /\ LET saved == save_uploaded_image(file_content, filename, uploads + 1) IN
       IF ~hasImage THEN
            /\ response' = JsonError("translate", 400, <<"No image file provided">>)
            /\ req' = [endpoint |-> "translate", hasImage |-> FALSE, saved |-> NotSaved,
                       out |-> NoOutcome, written |-> FALSE, translated |-> FALSE]
            /\ UNCHANGED <<files, uploads>>
       ELSE IF ~saved.ok THEN
            /\ response' = JsonError("translate", 400, <<saved.msg>>)
            /\ req' = [endpoint |-> "translate", hasImage |-> TRUE, saved |-> saved,
                       out |-> NoOutcome, written |-> FALSE, translated |-> FALSE]
            /\ UNCHANGED <<files, uploads>>
       ELSE
            /\ response' = TranslateResponse(out)
            /\ req' = [endpoint |-> "translate", hasImage |-> TRUE, saved |-> saved,
                       out |-> out, written |-> TRUE, translated |-> TRUE]
            /\ files' = FinallyUnlink(files \cup {saved.path}, saved.path, out)
            /\ uploads' = uploads + 1
    /\ UNCHANGED <<searchCache, codesCache>>
    /\ UNCHANGED forexVars


----
\* POST /api/fetch-images

\* A dish of the request body: with or without a "name" key, the name maybe "".
DishDicts ==
    {[has_name |-> FALSE, name |-> ""]} \cup {[has_name |-> TRUE, name |-> n] : n \in DishNames \cup {""}}

\* dish.get("name"), with None and "" both falsy
DishName(dish) == IF dish.has_name THEN dish.name ELSE ""

\* What one upstream image search may do: answer a list of URLs (the provider
\* knows images of Paella and none of Pho Bo) or fail with ImageSearchError.
SearchError == [kind |-> "error", urls |-> <<>>]

SearchOutcomes(query) ==
    {[kind |-> "results",
      urls |-> IF query = "Paella" THEN <<<<"https://img/paella">>>> ELSE <<>>],
     SearchError}

\* cached_brave_search(dish_name, language, BRAVE_API_KEY), the language and
\* the key held fixed: a stored list is returned without a search, a returned
\* list is stored, a raised ImageSearchError stores nothing.
cached_brave_search(cache, query, out) ==
    IF cache[query].cached
        THEN [event |-> "hit", urls |-> cache[query].urls, cache |-> cache]
    ELSE IF out.kind = "error"
        THEN [event |-> "error", urls |-> <<>>, cache |-> cache]
    ELSE [event |-> IF out.urls = <<>> THEN "empty" ELSE "results", urls |-> out.urls,
          cache |-> [cache EXCEPT ![query] = [cached |-> TRUE, urls |-> out.urls]]]

\* dish_name.replace(' ', '+')
ReplaceSpaces(name) ==
    CASE name = "Pho Bo" -> "Pho+Bo"
      [] OTHER -> name

PlaceholderUrl(dish_name) ==
    <<"https://via.placeholder.com/400x300?text=", ReplaceSpaces(dish_name)>>

EmptyImages == [n \in {} |-> None]

\* images_data[dish_name] = entry
Put(images, dish_name, entry) ==
    [n \in DOMAIN images \cup {dish_name} |-> IF n = dish_name THEN entry ELSE images[n]]

SearchFailedDropsBatch(images, dish_name) == Put(EmptyImages, dish_name, None)

\* except ImageSearchError: images_data[dish_name] = None
SearchFailed(images, dish_name) == Put(images, dish_name, None)

\* if search_results: ... else: [placeholder_url]
SearchReturned(images, dish_name, search_results) ==
    IF search_results # <<>> THEN Put(images, dish_name, Some(search_results))
    ELSE Put(images, dish_name, Some(<<PlaceholderUrl(dish_name)>>))

LoopStart(cache) == [images |-> EmptyImages, cache |-> cache, events |-> <<>>, invoked |-> 0]

\* for dish in dishes: from the i-th dish on
RECURSIVE FetchLoop(_, _, _, _)
FetchLoop(dishes, outs, i, st) ==
    IF i > Len(dishes) THEN st
    ELSE LET dish_name == DishName(dishes[i]) IN
         IF dish_name = ""
         THEN FetchLoop(dishes, outs, i + 1, [st EXCEPT !.events = Append(@, "skipped")])
         ELSE LET r == cached_brave_search(st.cache, dish_name, outs[i]) IN
              FetchLoop(dishes, outs, i + 1,
                  [images |-> IF r.event = "error" THEN SearchFailed(st.images, dish_name)
                              ELSE SearchReturned(st.images, dish_name, r.urls),
                   cache |-> r.cache,
                   events |-> Append(st.events, r.event),
                   invoked |-> st.invoked + 1])

AlwaysInclude(flag) == TRUE

\* data.get("include_images", True), tested with `not`
IncludeImages(flag) == flag # "false"

\* {dish.get("name"): None for dish in dishes if dish.get("name")}
NullImages(dishes) ==
    [n \in {DishName(dishes[i]) : i \in 1..Len(dishes)} \ {""} |-> None]

fetch_images(body, dishes, include_images, outs) ==
    /\ IF body = "empty" THEN
            /\ response' = JsonError("fetch-images", 400, <<"No JSON data provided">>)
            /\ req' = [endpoint |-> "fetch-images", body |-> body, dishes |-> <<>>,
                       include_images |-> "absent", outs |-> <<>>, events |-> <<>>,
                       invoked |-> 0, cache0 |-> searchCache]
            /\ UNCHANGED searchCache
       ELSE IF ~IncludeImages(include_images) THEN
            /\ response' = JsonSuccess("fetch-images", "images", NullImages(dishes))
            /\ req' = [endpoint |-> "fetch-images", body |-> body, dishes |-> dishes,
                       include_images |-> include_images, outs |-> outs, events |-> <<>>,
                       invoked |-> 0, cache0 |-> searchCache]
            /\ UNCHANGED searchCache
       ELSE LET st == FetchLoop(dishes, outs, 1, LoopStart(searchCache)) IN
            /\ response' = JsonSuccess("fetch-images", "images", st.images)
            /\ req' = [endpoint |-> "fetch-images", body |-> body, dishes |-> dishes,
                       include_images |-> include_images, outs |-> outs, events |-> st.events,
                       invoked |-> st.invoked, cache0 |-> searchCache]
            /\ searchCache' = st.cache
    /\ UNCHANGED <<files, uploads, codesCache>>
    /\ UNCHANGED forexVars

----
NoUrls == [cached |-> FALSE, urls |-> <<>>]
NoCodes == [cached |-> FALSE, codes |-> <<>>]

Init ==
    /\ rateCache = [p \in Pairs |-> NoEntry]
    /\ upstreamCalls = [p \in Pairs |-> 0]
    /\ upstreamReturned = [p \in Pairs |-> {}]
    /\ failed = {}
    /\ last = [n |-> 0, pair |-> <<"EUR", "EUR">>, resp |-> [kind |-> "http_error", entry |-> Absent],
               result |-> NoEntry, hit |-> FALSE]
    /\ pc = [c \in Callers |-> "idle"]
    /\ args = [c \in Callers |-> <<"EUR", "EUR">>]
    /\ val = [c \in Callers |-> NoEntry]
    /\ response = NoResponse
    /\ req = [endpoint |-> "none"]
    /\ files = {}
    /\ uploads = 0
    /\ searchCache = [n \in DishNames |-> NoUrls]
    /\ codesCache = NoCodes

\* One whole memoized call get_exchange_rate(from, to), served from the store.
MemoHit(pair) ==
    /\ last.n < MaxCalls
    /\ MemoryHit(rateCache, pair)
    /\ last' = [n |-> last.n + 1, pair |-> pair, resp |-> last.resp,
                result |-> rateCache[pair], hit |-> TRUE]
    /\ failed' = IF rateCache[pair].kind = "error" THEN failed \cup {pair} ELSE failed
    /\ UNCHANGED <<rateCache, upstreamCalls, upstreamReturned, pc, args, val>>

\* One whole memoized call that misses the store and runs the body.
MemoMiss(pair, resp) ==
    /\ last.n < MaxCalls
    /\ ~MemoryHit(rateCache, pair)
    /\ LET res == get_exchange_rate(pair[1], pair[2], resp) IN
        /\ rateCache' = MemoryStore(rateCache, pair, res)
        /\ last' = [n |-> last.n + 1, pair |-> pair, resp |-> resp, result |-> res, hit |-> FALSE]
        /\ failed' = IF res.kind = "error" THEN failed \cup {pair} ELSE failed
    /\ upstreamCalls' = CountUpstream(upstreamCalls, pair)
    /\ upstreamReturned' = NoteReturned(upstreamReturned, pair, resp)
    /\ UNCHANGED <<pc, args, val>>

CallHit(pair) == MemoHit(pair) /\ UNCHANGED httpVars

CallMiss(pair, resp) == MemoMiss(pair, resp) /\ UNCHANGED httpVars

NextSeq ==
    \/ \E pair \in Pairs : CallHit(pair)
    \/ \E pair \in Pairs, resp \in Responses : CallMiss(pair, resp)

SpecSeq == Init /\ [][NextSeq]_vars

----
\* Concurrent requests, each calling the memoized function once. The wrapper's
\* steps are separate: look the arguments up, run the body, store the output.
Lookup(c, pair) ==
    /\ pc[c] = "idle"
    /\ args' = [args EXCEPT ![c] = pair]
    /\ IF MemoryHit(rateCache, pair)
       THEN /\ val' = [val EXCEPT ![c] = rateCache[pair]]
            /\ pc' = [pc EXCEPT ![c] = "done"]
       ELSE /\ pc' = [pc EXCEPT ![c] = "miss"]
            /\ UNCHANGED val
    /\ UNCHANGED <<rateCache, upstreamCalls, upstreamReturned, failed, last>>
    /\ UNCHANGED httpVars

Compute(c, resp) ==
    /\ pc[c] = "miss"
    /\ val' = [val EXCEPT ![c] = get_exchange_rate(args[c][1], args[c][2], resp)]
    /\ pc' = [pc EXCEPT ![c] = "computed"]
    /\ upstreamCalls' = CountUpstream(upstreamCalls, args[c])
    /\ upstreamReturned' = NoteReturned(upstreamReturned, args[c], resp)
    /\ UNCHANGED <<rateCache, failed, last, args>>
    /\ UNCHANGED httpVars

Finish(c) ==
    /\ pc[c] = "computed"
    /\ rateCache' = MemoryStore(rateCache, args[c], val[c])
    /\ failed' = IF val[c].kind = "error" THEN failed \cup {args[c]} ELSE failed
    /\ pc' = [pc EXCEPT ![c] = "done"]
    /\ UNCHANGED <<upstreamCalls, upstreamReturned, last, args, val>>
    /\ UNCHANGED httpVars

NextConc ==
    \/ \E c \in Callers, pair \in Pairs : Lookup(c, pair)
    \/ \E c \in Callers, resp \in Responses : Compute(c, resp)
    \/ \E c \in Callers : Finish(c)

SpecConc == Init /\ [][NextConc]_vars

----
\* GET /api/exchange-rate

\* request.args.get(name, "") for a few raw query values; a missing parameter
\* reads as "".
RawParams == {"", "eur", " usd "}

\* .strip().upper()
StripUpper(raw) ==
    CASE raw = "" -> ""
      [] raw = "eur" -> "EUR"
      [] OTHER -> "USD"

RateResponse(res) ==
    IF res.kind = "rate" THEN JsonSuccess("exchange-rate", "rate", res.v)
    ELSE JsonError("exchange-rate", 400, <<res.msg>>)

exchange_rate(from_raw, to_raw, resp) ==
    LET from_currency == StripUpper(from_raw)
        to_currency == StripUpper(to_raw)
    IN
    /\ IF from_currency = "" \/ to_currency = "" THEN
            /\ response' = JsonError("exchange-rate", 400,
                                     <<"Missing 'from' or 'to' currency parameter">>)
            /\ UNCHANGED forexVars
       ELSE
            /\ \/ MemoHit(<<from_currency, to_currency>>)
               \/ MemoMiss(<<from_currency, to_currency>>, resp)
            /\ response' = RateResponse(last'.result)
    /\ req' = [endpoint |-> "exchange-rate"]
    /\ UNCHANGED <<files, uploads, searchCache, codesCache>>

----
\* GET /api/currencies

\* The provider's answers to GET /latest/USD as far as the code list goes.
CodeSets == {{"USD", "EUR"}, {"ZZZ", "USD", "EUR", "X"}}
CodesResponses ==
    {[kind |-> k, codes |-> {}] : k \in {"http_error", "bad_json", "no_rates", "rates_not_dict"}}
        \cup {[kind |-> "rates", codes |-> c] : c \in CodeSets}

\* sorted(): the codes in lexicographic order
CodeOrder == <<"EUR", "USD", "X", "ZZZ">>
Sorted(codes) == SelectSeq(CodeOrder, LAMBDA c : c \in codes)

\* The body of get_supported_currency_codes, given the provider's answer.
get_supported_currency_codes(resp) ==
    IF resp.kind \in {"http_error", "bad_json"}
        THEN [raised |-> TRUE, msg |-> "Failed to fetch currencies", codes |-> <<>>]
    ELSE IF resp.kind \in {"no_rates", "rates_not_dict"}
        THEN [raised |-> TRUE, msg |-> "Invalid currency list response", codes |-> <<>>]
    ELSE [raised |-> FALSE, msg |-> "", codes |-> Sorted(resp.codes)]

\* pycountry's currency names, babel's en_US symbols, and c[:2] for the flag.
CurrencyName(c) ==
    CASE c = "EUR" -> "Euro" [] c = "USD" -> "US Dollar" [] OTHER -> c

CurrencySymbol(c) ==
    CASE c = "EUR" -> "EUR-sign" [] c = "USD" -> "$" [] OTHER -> c

FirstTwo(c) ==
    CASE c = "EUR" -> "EU" [] c = "USD" -> "US" [] c = "ZZZ" -> "ZZ" [] OTHER -> c

\* _flag_emoji: the regional indicators of a two-letter alphabetic code, else ""
flag_emoji(alpha_2) ==
    IF alpha_2 \in {"EU", "US", "ZZ"} THEN <<"flag", alpha_2>> ELSE <<>>

get_supported_currencies(codes) ==
    [i \in 1..Len(codes) |->
        [code |-> codes[i], name |-> CurrencyName(codes[i]),
         emoji |-> IF codes[i] = "X" THEN <<>> ELSE flag_emoji(FirstTwo(codes[i])),
         symbol |-> CurrencySymbol(codes[i])]]

currencies(resp) ==
    /\ IF codesCache.cached THEN
            /\ response' = JsonSuccess("currencies", "currencies",
                                       get_supported_currencies(codesCache.codes))
            /\ UNCHANGED codesCache
       ELSE LET r == get_supported_currency_codes(resp) IN
            IF r.raised THEN
                \* the ValueError leaves the view: Flask's 500 page
                /\ response' = HtmlError("currencies", 500)
                /\ UNCHANGED codesCache
            ELSE
                /\ response' = JsonSuccess("currencies", "currencies",
                                           get_supported_currencies(r.codes))
                /\ codesCache' = [cached |-> TRUE, codes |-> r.codes]
    /\ req' = [endpoint |-> "currencies"]
    /\ UNCHANGED <<files, uploads, searchCache>>
    /\ UNCHANGED forexVars

----
\* The specifications of the HTTP API layer.
NextTranslate ==
    \E hasImage \in BOOLEAN, file_content \in Contents, filename \in Filenames,
       out \in TranslatorOutcomes :
        translate_menu(hasImage, file_content, filename, out)

SpecTranslate == Init /\ [][NextTranslate]_vars

\* The upstream outcomes a request may meet: one per named dish (a dish
\* without a name is never searched for).
OutcomesFor(dishes) ==
    {outs \in [1..Len(dishes) -> UNION {SearchOutcomes(n) : n \in DishNames}] :
        \A i \in 1..Len(dishes) :
            IF DishName(dishes[i]) = "" THEN outs[i] = SearchError
            ELSE outs[i] \in SearchOutcomes(DishName(dishes[i]))}

NextImages ==
    \/ fetch_images("empty", <<>>, "absent", <<>>)
    \/ \E dishes \in SeqsUpTo(DishDicts, MaxBatch),
          include_images \in {"true", "false", "absent"} :
           \E outs \in OutcomesFor(dishes) :
               fetch_images("json", dishes, include_images, outs)

SpecImages == Init /\ [][NextImages]_vars

\* The two endpoints that talk to the rate provider.
NextRates ==
    \/ \E from_raw \in RawParams, to_raw \in RawParams, resp \in Responses :
           exchange_rate(from_raw, to_raw, resp)
    \/ \E resp \in CodesResponses : currencies(resp)

SpecRates == Init /\ [][NextRates]_vars

----
\* C2 (as stated): for any sequence of calls, the upstream requests issued for
\* one (from, to) never exceed one and every call returns the stored value.
C2_AtMostOneUpstream ==
    \A pair \in Pairs : upstreamCalls[pair] <= 1

\* C2 (amended): once a call with (from, to) has returned a rate, every later
\* call with these arguments is a cache hit: it returns that same rate, issues
\* no upstream request and leaves the stored rate as it is.
C2_HitAfterFirstSuccess ==
    [][\A pair \in Pairs :
          rateCache[pair] # NoEntry =>
              /\ upstreamCalls'[pair] = upstreamCalls[pair]
              /\ rateCache'[pair] = rateCache[pair]
              /\ (last'.n # last.n /\ last'.pair = pair) =>
                    (last'.hit /\ last'.result = rateCache[pair])]_vars

C2_Witness ==
    /\ last.hit
    /\ IssuesRequest(last.pair)
    /\ last.result.kind = "rate"
    /\ upstreamCalls[last.pair] = 2

\* C3: a non-2xx or malformed answer (no rates, no target code, a rate that is
\* not a positive number) makes the call fail with an error; no call returns
\* and the store never holds a rate that is missing or <= 0.
C3_MalformedFails ==
    /\ (last.n > 0 /\ ~last.hit /\ IssuesRequest(last.pair) /\ Malformed(last.resp))
          => last.result.kind = "error"
    /\ last.n > 0 => (last.result.kind \in {"rate", "error"}
                        /\ (last.result.kind = "rate" => last.result.v > 0))
    /\ \A pair \in Pairs :
          rateCache[pair] # NoEntry => (rateCache[pair].kind = "rate" /\ rateCache[pair].v > 0)

C3_Witness ==
    /\ last.n > 0 /\ ~last.hit /\ IssuesRequest(last.pair)
    /\ last.resp = [kind |-> "rates", entry |-> [t |-> "num", v |-> 0]]
    /\ last.result.kind = "error"
    /\ rateCache[last.pair] = NoEntry

\* C8: callers racing on the memoized function each end with a positive rate
\* the provider answered for their pair (or with the error of their own failed
\* upstream call), and the store holds only such rates; the race costs extra
\* upstream calls and nothing else.
C8_RaceHarmless ==
    /\ \A c \in Callers :
          pc[c] = "done" =>
              /\ val[c].kind \in {"rate", "error"}
              /\ (val[c].kind = "rate" /\ IssuesRequest(args[c])) =>
                    (val[c].v > 0 /\ val[c].v \in upstreamReturned[args[c]])
              /\ (val[c].kind = "rate" /\ ~IssuesRequest(args[c])) => val[c].v = 1
              /\ val[c].kind = "rate" => rateCache[args[c]].kind = "rate"
              /\ val[c].kind = "error" => args[c] \in failed
    /\ \A pair \in Pairs :
          (rateCache[pair] # NoEntry /\ IssuesRequest(pair)) =>
              /\ rateCache[pair].kind = "rate"
              /\ rateCache[pair].v > 0
              /\ rateCache[pair].v \in upstreamReturned[pair]

\* Two callers missed the empty store together, both went upstream, got
\* different rates, and both are done.
C8_Witness ==
    \E c, d \in Callers :
        /\ c # d /\ args[c] = args[d] /\ IssuesRequest(args[c])
        /\ pc[c] = "done" /\ pc[d] = "done"
        /\ val[c].kind = "rate" /\ val[d].kind = "rate" /\ val[c] # val[d]
        /\ upstreamCalls[args[c]] = 2

\* C10: a call that fails leaves the store as it was, and was itself a fresh
\* upstream request, never the replay of an earlier error; so a call after a
\* failure goes upstream again and can succeed.
C10_FailureNotCached ==
    [][(last'.n # last.n /\ last'.result.kind = "error") =>
          /\ rateCache' = rateCache
          /\ ~last'.hit
          /\ upstreamCalls'[last'.pair] = upstreamCalls[last'.pair] + 1]_vars

C10_Witness ==
    /\ last.pair \in failed
    /\ ~last.hit
    /\ last.result.kind = "rate"
    /\ upstreamCalls[last.pair] = 2
    /\ rateCache[last.pair] = last.result

\* C1: a transient upload file written for a translate request no longer
\* exists once the request has completed, whether it ended 200 or 500.
C1_UploadRemoved ==
    /\ files = {}
    /\ (req.endpoint = "translate" /\ req.written) => req.saved.path \notin files

C1_Witness ==
    /\ req.endpoint = "translate" /\ req.written
    /\ req.out.kind = "Exception"
    /\ response.code = 500
    /\ uploads = 2

\* C6: translate maps no image field to 400 "No image file provided", an
\* ImageValidationError to 400 with the validator's message and no call of the
\* translator, a TranslationError to 500, and any other exception to 500 with
\* a fixed message that holds no text of the exception.
C6_ErrorMapping ==
    req.endpoint = "translate" =>
        /\ ~req.hasImage =>
              (response.code = 400 /\ response.status = "error"
                 /\ response.message = <<"No image file provided">> /\ ~req.translated)
        /\ (req.hasImage /\ ~req.saved.ok) =>
              (response.code = 400 /\ response.status = "error"
                 /\ response.message = <<req.saved.msg>> /\ ~req.translated)
        /\ req.out.kind = "TranslationError" =>
              (response.code = 500 /\ response.status = "error")
        /\ req.out.kind = "Exception" =>
              /\ response.code = 500 /\ response.status = "error"
              /\ response.message = <<"An unexpected error occurred during translation">>
              /\ \A i \in 1..Len(response.message) : response.message[i] # req.out.text

C6_Witness ==
    /\ req.endpoint = "translate" /\ req.translated
    /\ req.out = [kind |-> "Exception", dishes |-> <<>>, text |-> "boom"]
    /\ response.status = "error"

\* C9: on a successful translate the response lists the translator's dishes,
\* same length and order, each with image_urls null, whatever the translator
\* had put there.
C9_ImagesStripped ==
    (req.endpoint = "translate" /\ response.code = 200) =>
        LET d == response.payload.dishes IN
        /\ Len(d) = Len(req.out.dishes)
        /\ \A i \in 1..Len(d) :
              d[i].name = req.out.dishes[i].name /\ d[i].image_urls = None

C9_Witness ==
    /\ req.endpoint = "translate" /\ response.code = 200
    /\ Len(req.out.dishes) = 2
    /\ req.out.dishes[1].name # req.out.dishes[2].name
    /\ req.out.dishes[1].image_urls # None
    /\ response.payload.dishes[1].image_urls = None

RemoveAt(q, i) == [j \in 1..(Len(q) - 1) |-> IF j < i THEN q[j] ELSE q[j + 1]]

\* The images the request would have produced without its i-th dish.
WithoutDish(i) ==
    FetchLoop(RemoveAt(req.dishes, i), RemoveAt(req.outs, i), 1, LoopStart(req.cache0)).images

OthersUntouched(i, j) ==
    LET n == DishName(req.dishes[j]) IN
    /\ n \in DOMAIN response.payload
    /\ n \in DOMAIN WithoutDish(i)
    /\ response.payload[n] = WithoutDish(i)[n]

\* C4 (as stated): with include_images true, a failed search for one dish makes
\* that dish's entry null, the request still answers 200 success, and every
\* other named dish's entry is what it would be without the failing dish.
C4_FailureNullsItsDish ==
    (req.endpoint = "fetch-images" /\ req.body = "json" /\ req.include_images # "false") =>
        \A i \in 1..Len(req.events) :
            req.events[i] = "error" =>
                /\ response.code = 200 /\ response.status = "success"
                /\ DishName(req.dishes[i]) \in DOMAIN response.payload
                /\ response.payload[DishName(req.dishes[i])] = None
                /\ \A j \in 1..Len(req.dishes) :
                      (j # i /\ DishName(req.dishes[j]) \notin {"", DishName(req.dishes[i])})
                          => OthersUntouched(i, j)

\* C4 (amended): the failed dish's entry is null unless a later dish of the
\* request carries the same name (the map has one entry per name, and the later
\* dish's search decides it); the request answers 200 success; the entry of
\* every dish of another name is what it would be without the failing dish.
C4_FailureIsolated ==
    (req.endpoint = "fetch-images" /\ req.body = "json" /\ req.include_images # "false") =>
        \A i \in 1..Len(req.events) :
            req.events[i] = "error" =>
                /\ response.code = 200 /\ response.status = "success"
                /\ DishName(req.dishes[i]) \in DOMAIN response.payload
                /\ (\A j \in (i + 1)..Len(req.dishes) :
                        DishName(req.dishes[j]) # DishName(req.dishes[i]))
                      => response.payload[DishName(req.dishes[i])] = None
                /\ \A j \in 1..Len(req.dishes) :
                      (j # i /\ DishName(req.dishes[j]) \notin {"", DishName(req.dishes[i])})
                          => OthersUntouched(i, j)

C4_Witness ==
    /\ req.endpoint = "fetch-images" /\ req.include_images = "true"
    /\ Len(req.events) = 2
    /\ req.events[1] = "error" /\ req.events[2] = "results"
    /\ response.code = 200
    /\ response.payload[DishName(req.dishes[1])] = None
    /\ response.payload[DishName(req.dishes[2])] # None

\* C5: with include_images false the response maps every non-empty dish name
\* to null and nothing else, and the search client is not invoked, whatever it
\* would have answered.
C5_NoImagesNoSearch ==
    (req.endpoint = "fetch-images" /\ req.body = "json" /\ req.include_images = "false") =>
        /\ response.code = 200 /\ response.status = "success"
        /\ DOMAIN response.payload =
              {DishName(req.dishes[i]) : i \in 1..Len(req.dishes)} \ {""}
        /\ \A n \in DOMAIN response.payload : response.payload[n] = None
        /\ req.invoked = 0
        /\ searchCache = req.cache0

C5_Witness ==
    /\ req.endpoint = "fetch-images" /\ req.include_images = "false"
    /\ Len(req.dishes) = 2
    /\ DishName(req.dishes[1]) = "Paella" /\ ~req.dishes[2].has_name
    /\ req.outs[1].kind = "results"
    /\ ~searchCache["Paella"].cached
    /\ DOMAIN response.payload = {"Paella"}

ErrorShape(r) ==
    r.json /\ r.keys = {"status", "message"} /\ r.status = "error"

SuccessShape(r) ==
    /\ r.json /\ r.status = "success"
    /\ \E k \in {"data", "currencies", "images", "rate"} : r.keys = {"status", k}

\* C7: every response of an /api endpoint is {status: "error", message} or
\* {status: "success", data | currencies | images | rate}; so is the response
\* to GET /api/currencies when the rate provider fails.
C7_ResponseShape ==
    response.endpoint # "none" => (ErrorShape(response) \/ SuccessShape(response))

====
